---- MODULE Spec2Model ----
(***************************************************************************)
(* Model of ims_backend.py: the JSON-file store (load_data / save_data),   *)
(* the header check (require_auth) and the three read handlers             *)
(* get_dashboard_summary, filter_documents and get_products.               *)
(*                                                                         *)
(* Python values are represented as follows.                               *)
(*   - a dict with optional keys is a function whose DOMAIN is the set of  *)
(*     keys present (a document without 'source_location' has no such     *)
(*     field);                                                             *)
(*   - a dict in insertion order (data['products'], data['documents'])     *)
(*     is the sequence of its values, each value carrying its key as id;   *)
(*   - None inside a list of strings, or returned by doc.get(k), is the    *)
(*     string NoneVal;                                                     *)
(*   - a JSON value of unknown type (a filter field) is a tagged record    *)
(*     [kind |-> "list" | "str" | "num" | "null", ...];                    *)
(*   - created_at, an ISO-8601 string compared lexicographically by the    *)
(*     sort, is the rank of that string in lexicographic order;            *)
(*   - a percentage with one decimal is an integer number of tenths.       *)
(***************************************************************************)
EXTENDS Integers, Sequences, FiniteSets, TLC

VARIABLES file, loaded, resp

vars == <<file, loaded, resp>>

-----------------------------------------------------------------------------
(* Program constants *)

LOW_STOCK_THRESHOLD == 20

PageCap == 15

(* Bounds of the explored inputs *)

MaxProducts == 2

MaxDocs == 2

MaxBig == 17

MaxClock == 2

-----------------------------------------------------------------------------
(* Python helpers *)

NoneVal == "<None>"

PyNone == [kind |-> "null"]

PyList(s) == [kind |-> "list", elems |-> s]

PyStr(s) == [kind |-> "str", s |-> s]

PyNum(n) == [kind |-> "num", n |-> n]

\* bool(v) for a JSON value
Truthy(v) ==
    CASE v.kind = "null" -> FALSE
      [] v.kind = "list" -> v.elems # <<>>
      [] v.kind = "str"  -> v.s # ""
      [] v.kind = "num"  -> v.n # 0

\* d.get(k) on the filter dict: the value, or None
DictGet(d, k) == IF k \in DOMAIN d THEN d[k] ELSE PyNone

\* doc.get(k): the value, or None
DocGet(doc, k) == IF k \in DOMAIN doc THEN doc[k] ELSE NoneVal

\* doc.get('category_list', [])
DocCategories(doc) == IF "category_list" \in DOMAIN doc THEN doc["category_list"] ELSE <<>>

\* x in lst, for a list lst
InList(x, lst) == \E i \in 1..Len(lst) : lst[i] = x

Ids(s) == {s[i].id : i \in 1..Len(s)}

RECURSIVE SumStock(_)
SumStock(ps) == IF ps = <<>> THEN 0 ELSE Head(ps).stock_level + SumStock(Tail(ps))

Min(a, b) == IF a <= b THEN a ELSE b

-----------------------------------------------------------------------------
(* The datasets the file can hold *)

Types == <<"Delivery", "Receipt", "Internal", "Adjustment">>

Statuses == <<"Draft", "Waiting", "Ready", "Done">>

Locations ==
    [W001 |-> [id |-> "W001", name |-> "Main Warehouse", manager |-> "Alice"],
     W002 |-> [id |-> "W002", name |-> "Overflow Storage", manager |-> "Bob"]]

Product(id, cat, loc, stock) ==
    [id |-> id, category |-> cat, location_id |-> loc, stock_level |-> stock]

DefaultProducts ==
    << Product("P1A2B3C4", "Electronics", "W001", 120),
       Product("P5D6E7F8", "Peripherals", "W002", 35),
       Product("P9G0H1I2", "Components", "W001", 1000),
       Product("P00A0B0C", "Apparel", "W002", 10),
       Product("P0D0E0F0", "Home Goods", "W001", 5) >>

\* the four documents of default_data; nows are the four datetime.now() readings
DefaultDocuments(nows) ==
    << [id |-> "D001", type |-> "Delivery", status |-> "Ready", created_at |-> nows[1],
        source_location |-> "W001", category_list |-> <<"Electronics">>],
       [id |-> "R002", type |-> "Receipt", status |-> "Waiting", created_at |-> nows[2],
        target_location |-> "W001", category_list |-> <<"Components">>],
       [id |-> "T003", type |-> "Internal", status |-> "Draft", created_at |-> nows[3],
        source_location |-> "W002", target_location |-> "W001",
        category_list |-> <<"Peripherals">>],
       [id |-> "A004", type |-> "Adjustment", status |-> "Done", created_at |-> nows[4],
        category_list |-> <<"Apparel">>] >>

default_data(nows) ==
    [products |-> DefaultProducts, documents |-> DefaultDocuments(nows),
     locations |-> Locations]

\* successive readings of the clock never decrease
NowTuples ==
    {n \in [1..4 -> 1..MaxClock] : \A i \in 1..3 : n[i] <= n[i+1]}

Absent == [kind |-> "absent"]

Corrupt == [kind |-> "corrupt"]

Json(d) == [kind |-> "json", data |-> d]

NoSnapshot == [kind |-> "none"]

-----------------------------------------------------------------------------
(* Bounded families of file contents *)

\* a dict keyed "1", "2", ... in insertion order: each value carries its key
WithIds(s) == [i \in 1..Len(s) |-> s[i] @@ ("id" :> ToString(i))]

StockLevels == {0, 1, LOW_STOCK_THRESHOLD, LOW_STOCK_THRESHOLD + 1}

ProductOptions ==
    {[category |-> IF n % 2 = 0 THEN "Electronics" ELSE "Components",
      stock_level |-> n,
      location_id |-> IF n < LOW_STOCK_THRESHOLD THEN "W001" ELSE "W002"] :
        n \in StockLevels}

ProductSets ==
    {WithIds(s) : s \in UNION {[1..n -> ProductOptions] : n \in 0..MaxProducts}}

\* one document per (type, status); locations, categories and time vary with both
PoolDoc(k) ==
    LET ti == (k \div 4) + 1
        si == (k % 4) + 1
        ls == (ti + si) % 4
        cs == (ti + 2 * si) % 4
        base == [type |-> Types[ti], status |-> Statuses[si],
                 created_at |-> (si % 3) + 1]
        src == CASE ls = 1 -> ("source_location" :> "W001")
                 [] ls = 3 -> ("source_location" :> "W002")
                 [] OTHER  -> <<>>
        tgt == CASE ls = 2 -> ("target_location" :> "W002")
                 [] ls = 3 -> ("target_location" :> "W001")
                 [] OTHER  -> <<>>
        cat == CASE cs = 1 -> ("category_list" :> <<"Electronics">>)
                 [] cs = 2 -> ("category_list" :> <<"Electronics", "Components">>)
                 [] cs = 3 -> ("category_list" :> <<>>)
                 [] OTHER  -> <<>>
    IN  base @@ src @@ tgt @@ cat

DocSets ==
    {WithIds([i \in 1..Len(s) |-> PoolDoc(s[i])]) :
        s \in {t \in UNION {[1..n -> 0..15] : n \in 0..MaxDocs} :
                 \A i \in 1..Len(t) - 1 : t[i] < t[i+1]}}

\* a long collection, to exceed the page of 15
BigDoc(i) ==
    LET base == [type |-> Types[(i % 4) + 1], status |-> Statuses[((i \div 2) % 4) + 1],
                 created_at |-> ((i * 3) % 5) + 1]
        src == IF i % 3 = 0 THEN ("source_location" :> "W001") ELSE <<>>
        cat == IF i % 2 = 0 THEN ("category_list" :> <<"Electronics">>) ELSE <<>>
    IN  base @@ src @@ cat

BigDocSets == {WithIds([i \in 1..n |-> BigDoc(i)]) : n \in (PageCap - 1)..MaxBig}

Datasets ==
    {[products |-> ps, documents |-> DefaultDocuments(<<1, 1, 1, 1>>),
      locations |-> Locations] : ps \in ProductSets}
    \cup
    {[products |-> DefaultProducts, documents |-> ds, locations |-> Locations] :
        ds \in DocSets \cup BigDocSets}

-----------------------------------------------------------------------------
(* Store *)

\* load_data that seeds the defaults on every call
load_data_AlwaysSeeds(f, nows, ioOk) ==
    LET d == default_data(nows)
    IN  [data |-> IF f.kind = "json" THEN f.data ELSE d, file |-> Json(d)]

\* save_data: writes the file; an IOError is printed and swallowed
save_data(f, data, ioOk) == IF ioOk THEN Json(data) ELSE f

\* load_data: the parsed file, or the defaults, which it saves
load_data(f, nows, ioOk) ==
    IF f.kind = "json"
    THEN [data |-> f.data, file |-> f]
    ELSE LET d == default_data(nows)
         IN  [data |-> d, file |-> save_data(f, d, ioOk)]

\* the environment inputs load_data reads: none when the file parses
LoadEnvs(f) ==
    IF f.kind = "json"
    THEN {[nows |-> <<1, 1, 1, 1>>, ioOk |-> TRUE]}
    ELSE [nows : NowTuples, ioOk : BOOLEAN]

-----------------------------------------------------------------------------
(* Aggregator: get_dashboard_summary *)

\* d[k] = d.get(k, 0) + v on a dict kept in insertion order
DictAdd(d, k, v) ==
    IF \E i \in 1..Len(d) : d[i].key = k
    THEN [i \in 1..Len(d) |->
            IF d[i].key = k THEN [key |-> k, value |-> d[i].value + v] ELSE d[i]]
    ELSE Append(d, [key |-> k, value |-> v])

\* for p in products: d[p[field]] = d.get(p[field], 0) + p['stock_level']
RECURSIVE StockBy(_, _, _)
StockBy(ps, field, d) ==
    IF ps = <<>> THEN d
    ELSE StockBy(Tail(ps), field, DictAdd(d, Head(ps)[field], Head(ps).stock_level))

\* round(count / total * 100, 1) in tenths, total # 0, ties to even
PercentTenths(count, total) ==
    LET n == count * 1000
        q == n \div total
        r == n % total
    IN  IF 2 * r < total THEN q
        ELSE IF 2 * r > total THEN q + 1
        ELSE IF q % 2 = 0 THEN q ELSE q + 1

PendingStatuses == {"Waiting", "Ready"}

\* adjustments counted like the other three types
AdjustmentStatuses_Narrow == {"Waiting", "Ready"}

AdjustmentStatuses == {"Draft", "Waiting", "Ready"}

\* len([d for d in docs if d['type'] == t and d['status'] in sts])
CountDocs(docs, t, sts) ==
    Len(SelectSeq(docs, LAMBDA d : d.type = t /\ d.status \in sts))

\* low stock with the threshold excluded
LowStockCount_Exclusive(products) ==
    Len(SelectSeq(products,
                  LAMBDA p : p.stock_level > 0 /\ p.stock_level < LOW_STOCK_THRESHOLD))

\* len([p for p in products if p['stock_level'] > 0 and p['stock_level'] <= LOW_STOCK_THRESHOLD])
LowStockCount(products) ==
    Len(SelectSeq(products,
                  LAMBDA p : p.stock_level > 0 /\ p.stock_level <= LOW_STOCK_THRESHOLD))

\* len([p for p in products if p['stock_level'] == 0])
OutOfStockCount(products) ==
    Len(SelectSeq(products, LAMBDA p : p.stock_level = 0))

Error(op, name) == [code |-> 500, op |-> op, error |-> name]

get_dashboard_summary(data) ==
    LET products == data.products
        docs == data.documents
        total_products_in_stock == SumStock(products)
        location_stock == StockBy(products, "location_id", <<>>)
        category_counts == StockBy(products, "category", <<>>)
        total_stock == total_products_in_stock
    IN  IF \E i \in 1..Len(location_stock) :
               location_stock[i].key \notin DOMAIN data.locations
        THEN Error("summary", "KeyError")
        ELSE IF category_counts # <<>> /\ total_stock = 0
        THEN Error("summary", "ZeroDivisionError")
        ELSE [code |-> 200, op |-> "summary",
              body |->
                [total_products_in_stock |-> total_products_in_stock,
                 low_stock_items |-> LowStockCount(products),
                 out_of_stock_items |-> OutOfStockCount(products),
                 pending_receipts |-> CountDocs(docs, "Receipt", PendingStatuses),
                 pending_deliveries |-> CountDocs(docs, "Delivery", PendingStatuses),
                 transfers_scheduled |-> CountDocs(docs, "Internal", PendingStatuses),
                 adjustments_pending |-> CountDocs(docs, "Adjustment", AdjustmentStatuses),
                 locations |-> data.locations,
                 location_chart_data |->
                    [i \in 1..Len(location_stock) |->
                        [location |-> data.locations[location_stock[i].key].name,
                         stock |-> location_stock[i].value]],
                 category_chart_data |->
                    [i \in 1..Len(category_counts) |->
                        [name |-> category_counts[i].key,
                         value |-> category_counts[i].value,
                         percent |-> PercentTenths(category_counts[i].value,
                                                   total_stock)]]]]

-----------------------------------------------------------------------------
(* Filter Engine: filter_documents *)

\* `isinstance(v, list)` alone: an empty list filters
IsActive_NoEmptyCheck(v) == v.kind = "list"

\* `v and isinstance(v, list)`
IsActive(v) == Truthy(v) /\ v.kind = "list"

TypePass(docs, v) ==
    IF IsActive(v) THEN SelectSeq(docs, LAMBDA d : InList(d.type, v.elems)) ELSE docs

StatusPass(docs, v) ==
    IF IsActive(v) THEN SelectSeq(docs, LAMBDA d : InList(d.status, v.elems)) ELSE docs

\* location filter that wants both ends in the list
LocationPass_BothEnds(docs, v) ==
    IF Truthy(v) /\ v.kind = "list"
    THEN SelectSeq(docs, LAMBDA d : /\ InList(DocGet(d, "source_location"), v.elems)
                                    /\ InList(DocGet(d, "target_location"), v.elems))
    ELSE docs

LocationPass(docs, v) ==
    IF IsActive(v)
    THEN SelectSeq(docs, LAMBDA d : \/ InList(DocGet(d, "source_location"), v.elems)
                                    \/ InList(DocGet(d, "target_location"), v.elems))
    ELSE docs

CategoryPass(docs, v) ==
    IF IsActive(v)
    THEN SelectSeq(docs, LAMBDA d : \E i \in 1..Len(DocCategories(d)) :
                                       InList(DocCategories(d)[i], v.elems))
    ELSE docs

\* the sort without reverse=True
InsertDesc_Ascending(sorted, d) ==
    LET n == Cardinality({i \in 1..Len(sorted) : sorted[i].created_at <= d.created_at})
    IN  SubSeq(sorted, 1, n) \o <<d>> \o SubSeq(sorted, n + 1, Len(sorted))

\* list.sort(key=created_at, reverse=True): stable, equal keys keep their order
InsertDesc(sorted, d) ==
    LET n == Cardinality({i \in 1..Len(sorted) : sorted[i].created_at >= d.created_at})
    IN  SubSeq(sorted, 1, n) \o <<d>> \o SubSeq(sorted, n + 1, Len(sorted))

RECURSIVE SortDesc(_, _)
SortDesc(docs, acc) ==
    IF docs = <<>> THEN acc ELSE SortDesc(Tail(docs), InsertDesc(acc, Head(docs)))

\* filtered_docs[-15:]
Page_Tail(docs) == SubSeq(docs, Len(docs) - Min(Len(docs), PageCap) + 1, Len(docs))

\* filtered_docs[:15]
Page(docs) == SubSeq(docs, 1, Min(Len(docs), PageCap))

filter_documents(data, filters) ==
    LET all_docs == data.documents
    IN  IF filters.kind # "dict"
        THEN Error("filter", "AttributeError") @@ [filters |-> filters]
        ELSE LET f == filters.fields
                 byType == TypePass(all_docs, DictGet(f, "document_type"))
                 byStatus == StatusPass(byType, DictGet(f, "status"))
                 byLocation == LocationPass(byStatus, DictGet(f, "location"))
                 byCategory == CategoryPass(byLocation, DictGet(f, "category"))
                 filtered_docs == SortDesc(byCategory, <<>>)
             IN  [code |-> 200, op |-> "filter", filters |-> filters,
                  body |-> [count |-> Len(filtered_docs),
                            documents |-> Page(filtered_docs)]]

\* get_products
get_products(data) ==
    [code |-> 200, op |-> "products",
     body |-> [count |-> Len(data.products), products |-> data.products]]

\* require_auth: 401 unless the User-Id header is present
Unauthorized == [code |-> 401, op |-> "auth"]

-----------------------------------------------------------------------------
(* Request bodies of POST /api/documents/filter *)

Missing == [kind |-> "missing"]

FilterKeys == {"document_type", "status", "location", "category"}

\* the JSON object with the fields of g that are not Missing
Body(g) ==
    [kind |-> "dict",
     fields |-> [k \in {x \in FilterKeys : g[x].kind # "missing"} |-> g[k]]]

ListSpecs ==
    [document_type : {Missing, PyList(<<"Delivery", "Adjustment">>)},
     status : {Missing, PyList(<<"Waiting", "Ready">>)},
     location : {Missing, PyList(<<"W001">>), PyList(<<NoneVal>>)},
     category : {Missing, PyList(<<"Electronics">>)}]

NoFields == [k \in FilterKeys |-> Missing]

AllFields ==
    [document_type |-> PyList(<<"Delivery", "Receipt">>),
     status |-> PyList(<<"Waiting", "Ready">>),
     location |-> PyList(<<"W001">>),
     category |-> PyList(<<"Electronics">>)]

\* values that are not a non-empty list
OddValues(k) ==
    {PyNone, PyList(<<>>), PyNum(5), PyStr(AllFields[k].elems[1])}

OddSpecs ==
    UNION {{[b EXCEPT ![k] = v] : b \in {NoFields, AllFields}, v \in OddValues(k)} :
             k \in FilterKeys}

\* request.get_json(): an object, or null
FilterBodies == {Body(g) : g \in ListSpecs \cup OddSpecs} \cup {PyNone}

-----------------------------------------------------------------------------
(* State machine *)

NoResponse == [code |-> 0, op |-> "none"]

Init ==
    /\ file \in {Absent, Corrupt} \cup {Json(d) : d \in Datasets}
    /\ loaded = NoSnapshot
    /\ resp = NoResponse

\* python ims_backend.py: load_data() before app.run
Main ==
    \E env \in LoadEnvs(file) :
        LET r == load_data(file, env.nows, env.ioOk)
        IN  /\ file' = r.file
            /\ loaded' = r.data
            /\ resp' = NoResponse

\* any route behind require_auth, called without the User-Id header
RequireAuthReject ==
    /\ resp' = Unauthorized
    /\ loaded' = NoSnapshot
    /\ UNCHANGED file

\* GET /api/dashboard/summary
GetDashboardSummary ==
    \E env \in LoadEnvs(file) :
        LET r == load_data(file, env.nows, env.ioOk)
        IN  /\ file' = r.file
            /\ loaded' = r.data
            /\ resp' = get_dashboard_summary(r.data)

\* POST /api/documents/filter
FilterDocuments ==
    \E env \in LoadEnvs(file), filters \in FilterBodies :
        LET r == load_data(file, env.nows, env.ioOk)
        IN  /\ file' = r.file
            /\ loaded' = r.data
            /\ resp' = filter_documents(r.data, filters)

\* GET /api/stock/products
GetProducts ==
    \E env \in LoadEnvs(file) :
        LET r == load_data(file, env.nows, env.ioOk)
        IN  /\ file' = r.file
            /\ loaded' = r.data
            /\ resp' = get_products(r.data)

Next ==
    \/ Main
    \/ RequireAuthReject
    \/ GetDashboardSummary
    \/ FilterDocuments
    \/ GetProducts

Spec == Init /\ [][Next]_vars

-----------------------------------------------------------------------------
(* Vocabulary of the properties *)

Elems(lst) == {lst[i] : i \in 1..Len(lst)}

FilterResponse == resp.op = "filter" /\ resp.code = 200

SummaryResponse == resp.op = "summary" /\ resp.code = 200

\* a filter field constrains when it is a non-empty list
Constrains(v) == v.kind = "list" /\ Len(v.elems) > 0

\* the condition one filter field puts on one document
FieldHolds(k, d, allowed) ==
    CASE k = "document_type" -> d.type \in allowed
      [] k = "status"        -> d.status \in allowed
      [] k = "location"      -> \/ DocGet(d, "source_location") \in allowed
                                \/ DocGet(d, "target_location") \in allowed
      [] k = "category"      -> Elems(DocCategories(d)) \cap allowed # {}

\* the conjunction of the conditions of all constraining fields
Matches(d, fields) ==
    \A k \in DOMAIN fields :
        Constrains(fields[k]) => FieldHolds(k, d, Elems(fields[k].elems))

MatchingIds(docs, fields) ==
    {docs[i].id : i \in {j \in 1..Len(docs) : Matches(docs[j], fields)}}

HasLocation(d) == "source_location" \in DOMAIN d \/ "target_location" \in DOMAIN d

\* the fields of a body without field k
Without(fields, k) == [x \in DOMAIN fields \ {k} |-> fields[x]]

-----------------------------------------------------------------------------
(* Properties *)

\* C1: a summary request on a snapshot whose stock levels sum to 0 returns
\* normally, and every entry of category_chart_data has percent 0.0.
C1_ZeroTotalSummaryReturns ==
    (resp.op = "summary" /\ SumStock(loaded.products) = 0) =>
        /\ resp.code = 200
        /\ \A i \in 1..Len(resp.body.category_chart_data) :
               resp.body.category_chart_data[i].percent = 0

C3_OddFieldIsNoConstraint ==
    (resp.op = "filter" /\ resp.filters.kind = "dict") =>
        \A k \in DOMAIN resp.filters.fields :
            ~Constrains(resp.filters.fields[k]) =>
                /\ resp.code = 200
                /\ resp.body =
                     filter_documents(loaded,
                        [kind |-> "dict",
                         fields |-> Without(resp.filters.fields, k)]).body

\* a response to a body whose document_type is a string naming the type of a
\* document, while the other fields dropped a document of another type
C3_Witness ==
    /\ FilterResponse
    /\ "document_type" \in DOMAIN resp.filters.fields
    /\ resp.filters.fields["document_type"].kind = "str"
    /\ resp.filters.fields["document_type"].s # ""
    /\ \E i \in 1..Len(resp.body.documents) :
          resp.body.documents[i].type # resp.filters.fields["document_type"].s
    /\ resp.body.count < Len(loaded.documents)

\* C4: an empty or absent (null) filter specification does not make the
\* request fail: count is the number of documents of the snapshot and the
\* list holds min(count, 15) of them.
C4_EmptyOrAbsentSpecReturnsAll ==
    (resp.op = "filter" /\ (resp.filters.kind = "null" \/ resp.filters.fields = <<>>)) =>
        /\ resp.code = 200
        /\ resp.body.count = Len(loaded.documents)
        /\ Len(resp.body.documents) = Min(resp.body.count, PageCap)
        /\ Ids(resp.body.documents) \subseteq Ids(loaded.documents)

\* C5: count is the number of matching documents before truncation, the list
\* has min(count, 15) distinct matching documents, and no matching document
\* that sorts before a returned one is left out.
C5_PageIsHeadOfSortedMatches ==
    FilterResponse =>
        LET M == MatchingIds(loaded.documents, resp.filters.fields)
            page == resp.body.documents
        IN  /\ resp.body.count = Cardinality(M)
            /\ Len(page) = Min(resp.body.count, PageCap)
            /\ Cardinality(Ids(page)) = Len(page)
            /\ Ids(page) \subseteq M
            /\ \A i \in 1..Len(loaded.documents) :
                  LET d == loaded.documents[i]
                  IN  (d.id \in M /\ d.id \notin Ids(page)) =>
                          \A j \in 1..Len(page) : page[j].created_at >= d.created_at

\* a truncated response: more than 15 matches, one of them left out and
\* strictly older than a returned one
C5_Witness ==
    /\ FilterResponse
    /\ resp.body.count > PageCap
    /\ Len(resp.body.documents) = PageCap
    /\ \E i \in 1..Len(loaded.documents) :
          /\ loaded.documents[i].id \notin Ids(resp.body.documents)
          /\ Matches(loaded.documents[i], resp.filters.fields)
          /\ loaded.documents[i].created_at < resp.body.documents[1].created_at

\* C6: the returned documents are in descending order of created_at.
C6_SortedByCreatedAtDescending ==
    FilterResponse =>
        \A i \in 1..Len(resp.body.documents) - 1 :
            resp.body.documents[i].created_at >= resp.body.documents[i+1].created_at

\* a response whose first document is strictly more recent than its last one,
\* although it comes later in the snapshot
C6_Witness ==
    /\ FilterResponse
    /\ Len(resp.body.documents) >= 2
    /\ LET first == resp.body.documents[1]
           last == resp.body.documents[Len(resp.body.documents)]
       IN  /\ first.created_at > last.created_at
           /\ \E i, j \in 1..Len(loaded.documents) :
                 /\ i < j
                 /\ loaded.documents[i].id = last.id
                 /\ loaded.documents[j].id = first.id

C9_LocationFilterExcludesUnlocated ==
    (FilterResponse /\ Constrains(DictGet(resp.filters.fields, "location"))) =>
        \A i \in 1..Len(resp.body.documents) : HasLocation(resp.body.documents[i])

\* C10: a step changes the file only when it was absent or corrupt, and then
\* to the default dataset that load_data returned; when the file holds valid
\* JSON a step leaves it unchanged and the snapshot it loads is its content.
C10_OnlyLoadDataSeedsTheFile ==
    [][ /\ file' # file =>
              /\ file.kind \in {"absent", "corrupt"}
              /\ file' = Json(loaded')
              /\ \E n \in NowTuples : loaded' = default_data(n)
        /\ file.kind = "json" =>
              /\ file' = file
              /\ loaded' # NoSnapshot => loaded' = file.data
      ]_vars

\* the seeded file after a filter request whose sort reordered the documents
C10_Witness ==
    /\ file.kind = "json"
    /\ \E n \in NowTuples : file.data = default_data(n)
    /\ FilterResponse
    /\ loaded = file.data
    /\ resp.body.count = Len(loaded.documents)
    /\ resp.body.documents # loaded.documents

====
